---- MODULE Spec2Model ----
(***************************************************************************)
(* Model of examples/get_image/main.go (the streaming server, lines        *)
(* 104-366): main, the cameraThread acquisition loop, the web server       *)
(* goroutine and the servePNG request handlers, with the three mutexes     *)
(* (mu, is.mu, is.out.mu), the acquisition buffer pool and the double      *)
(* buffered output (is.out.back / is.out.front).                           *)
(***************************************************************************)
EXTENDS Integers, Sequences, FiniteSets, TLC

(* ------------------------------ bounds --------------------------------- *)
\* number of connections, each serving its requests one after the other
NumReq == 2
\* number of distinct pixel contents a frame may have
MaxPix == 2

(* ------------------------- program constants --------------------------- *)
\* "for i := 0; i < 2; i++": buffers seeded into the stream
NumBuffers == 2
\* flag defaults
DefaultGain == 10
DefaultExposure == 103656

(* ----------------------------- data model ------------------------------ *)
Reqs == 1..NumReq
Pixels == 1..MaxPix

\* the nil buffer TimeoutPopBuffer hands back when nothing arrived in time
NoBuffer == 0
\* float64 NaN, which strconv.ParseFloat yields for the text "NaN"
NaN == -1
\* first byte of every PNG stream written by png.Encoder.Encode
PNGMagic == 137

\* sync.Mutex owners
NoOwner == <<>>
CamOwner == <<"cam">>
ReqOwner(h) == <<"req", h>>

\* query strings a request may carry for gain / exposure ("" = absent)
GainStrs == {"", "20", "abc", "NaN"}
ExposureStrs == {"", "abc"}

\* strconv.ParseFloat(s, 64): the value and whether an error was returned.
\* A syntax error yields (0, err); "NaN" parses without error.
ParseFloat(s) ==
    CASE s = "20"   -> [val |-> 20,   err |-> FALSE]
      [] s = "NaN"  -> [val |-> NaN,  err |-> FALSE]
      [] OTHER      -> [val |-> 0,    err |-> TRUE]

\* Go's float64 "a != b": NaN differs from everything, itself included
FloatNeq(a, b) == a = NaN \/ b = NaN \/ a # b

\* png.Encoder.Encode of a gray image with the given pixel content
Encode(pix) == <<PNGMagic, pix>>

\* make([]byte, n): n zero bytes
MakeBytes(n) == [i \in 1..n |-> 0]

Min(a, b) == IF a < b THEN a ELSE b

VARIABLES
    mainPc,        \* position of main
    ctxDone,       \* ctx cancelled by cancelFunc()
    inShutdown,    \* webServer.Shutdown has been called
    wg,            \* is.activeBackgroundWorkers counter
    openFailed,    \* aravis.NewCamera returned an (ignored) error
    webPc,         \* position of the ListenAndServe goroutine
    camPc,         \* position of cameraThread
    camErr,        \* cameraThread returned a non-nil error
    seedI,         \* loop variable i of the seeding loop
    devBufs,       \* queue of buffers currently owned by the device stream
    buffer,        \* the loop's variable "buffer"
    loopOwns,      \* "buffer" was popped and not yet pushed back
    status,        \* buffer.GetStatus() of the popped buffer
    frame,         \* pixel content of the popped buffer
    data,          \* the loop's variable "data" (img.Pix)
    encErr,        \* encoder.Encode returned a non-nil err
    streamOpen,    \* stream created and not yet closed
    acquiring,     \* StartAcquisition called, StopAcquisition not yet
    back,          \* is.out.back
    front,         \* is.out.front
    copyIdx,       \* bytes copied so far by copy(is.out.front, ...)
    outMu,         \* owner of is.out.mu
    mu,            \* owner of the global mu
    isMu,          \* owner of is.mu
    isGain,        \* is.gain
    isExposure,    \* is.exposure
    devGain,       \* gain the camera was last set to (SetGain)
    devExposure,   \* exposure time the camera was last set to
    pc,            \* position of each request handler
    gainStr,       \* r.FormValue("gain") of each request
    exposureStr,   \* r.FormValue("exposure") of each request
    gainVal,       \* local "gain" of each handler
    exposureVal,   \* local "exposure" of each handler
    resp,          \* bytes handed to w.Write by each handler
    stalled,       \* the client of this request never drains the response
    lastCommitted, \* history: payload of the latest completed commit
    atLock,        \* history: lastCommitted when the handler took is.out.mu
    cancelled,     \* history: the request's context was done at the select
    callFailed,    \* history: the device call just made reported an error
    wrote,         \* history: the handler has called w.Write
    iterPushes,    \* history: PushBuffer calls of the current iteration
    iterated       \* history: the loop has popped at least once

mainVars == <<mainPc, ctxDone, inShutdown, openFailed>>
camVars == <<camPc, camErr, seedI, devBufs, buffer, loopOwns, status, frame,
             data, encErr, streamOpen, acquiring, back, copyIdx>>
camHist == <<lastCommitted, iterPushes, iterated>>
paramVars == <<isMu, isGain, isExposure, devGain, devExposure>>
reqHist == <<cancelled, callFailed, wrote>>
reqVars == <<pc, gainStr, exposureStr, gainVal, exposureVal, resp, stalled,
             atLock, reqHist>>
vars == <<mainVars, wg, webPc, camVars, camHist, front, outMu, mu, paramVars,
          reqVars>>

Init ==
    /\ mainPc = "enumerate"
    /\ ctxDone = FALSE
    /\ inShutdown = FALSE
    /\ wg = 0
    /\ openFailed = FALSE
    /\ webPc = "idle"
    /\ camPc = "idle"
    /\ camErr = FALSE
    /\ seedI = 0
    /\ devBufs = <<>>
    /\ buffer = NoBuffer
    /\ loopOwns = FALSE
    /\ status = "none"
    /\ frame = 0
    /\ data = 0
    /\ encErr = FALSE
    /\ streamOpen = FALSE
    /\ acquiring = FALSE
    /\ back = <<>>
    /\ front = <<>>
    /\ copyIdx = 0
    /\ outMu = NoOwner
    /\ mu = NoOwner
    /\ isMu = NoOwner
    /\ isGain = DefaultGain
    /\ isExposure = DefaultExposure
    /\ devGain = DefaultGain
    /\ devExposure = DefaultExposure
    /\ pc = [h \in Reqs |-> "idle"]
    /\ gainStr = [h \in Reqs |-> ""]
    /\ exposureStr = [h \in Reqs |-> ""]
    /\ gainVal = [h \in Reqs |-> 0]
    /\ exposureVal = [h \in Reqs |-> 0]
    /\ resp = [h \in Reqs |-> <<>>]
    /\ stalled = [h \in Reqs |-> FALSE]
    /\ lastCommitted = <<>>
    /\ atLock = [h \in Reqs |-> <<>>]
    /\ cancelled = [h \in Reqs |-> FALSE]
    /\ callFailed = [h \in Reqs |-> FALSE]
    /\ wrote = [h \in Reqs |-> FALSE]
    /\ iterPushes = 0
    /\ iterated = FALSE

\* the process is running: neither logger.Fatal nor the return of main
Alive == mainPc \notin {"fatal", "quit"}

(* ------------------------------- main ---------------------------------- *)
\* aravis.GetNumDevices: an error or zero devices is fatal
MainEnumerate ==
    /\ mainPc = "enumerate"
    /\ \E r \in {"error", "none", "found"} :
          mainPc' = IF r = "found" THEN "open" ELSE "fatal"
    /\ UNCHANGED <<ctxDone, inShutdown, openFailed, wg, webPc, camVars,
                   camHist, front, outMu, mu, paramVars, reqVars>>

\* aravis.NewCamera: the error is discarded; the camera is configured and
\* the imageSource is built with the default exposure and gain
MainOpen ==
    /\ mainPc = "open"
    /\ \E ok \in BOOLEAN : openFailed' = ~ok
    /\ mainPc' = "spawn"
    /\ UNCHANGED <<ctxDone, inShutdown, wg, webPc, camVars, camHist, front,
                   outMu, mu, paramVars, reqVars>>

\* activeBackgroundWorkers.Add(2) and the two go statements
MainSpawn ==
    /\ mainPc = "spawn"
    /\ wg' = 2
    /\ camPc' = "createStream"
    /\ webPc' = "start"
    /\ mainPc' = "select"
    /\ UNCHANGED <<encErr, ctxDone, inShutdown, openFailed, camErr, seedI, devBufs,
                   buffer, loopOwns, status, frame, data, streamOpen,
                   acquiring, back, copyIdx, camHist, front, outMu, mu,
                   paramVars, reqVars>>

\* a SIGINT / SIGTERM is received from signalChan and logged; cancelFunc()
MainSignal ==
    /\ mainPc = "select"
    /\ ctxDone' = TRUE
    /\ mainPc' = "shutdown"
    /\ UNCHANGED <<inShutdown, openFailed, wg, webPc, camVars, camHist, front,
                   outMu, mu, paramVars, reqVars>>

\* webServer.Shutdown(ctx) is entered: no new requests are accepted
MainShutdown ==
    /\ mainPc = "shutdown"
    /\ inShutdown' = TRUE
    /\ mainPc' = "shutdownWait"
    /\ UNCHANGED <<ctxDone, openFailed, wg, webPc, camVars, camHist, front,
                   outMu, mu, paramVars, reqVars>>

\* Shutdown returns: every handler has finished, or the 5 s context expired
MainShutdownReturn ==
    /\ mainPc = "shutdownWait"
    /\ \E expired \in BOOLEAN :
          expired \/ \A h \in Reqs : pc[h] = "idle"
    /\ mainPc' = "wait"
    /\ UNCHANGED <<ctxDone, inShutdown, openFailed, wg, webPc, camVars,
                   camHist, front, outMu, mu, paramVars, reqVars>>

\* (variant) main does not wait for the background workers
MainWaitNoBlock ==
    /\ mainPc = "wait"
    /\ mainPc' = "quit"
    /\ UNCHANGED <<ctxDone, inShutdown, openFailed, wg, webPc, camVars,
                   camHist, front, outMu, mu, paramVars, reqVars>>

\* activeBackgroundWorkers.Wait(), then "Quitting." and main returns
MainWait ==
    /\ mainPc = "wait"
    /\ wg = 0
    /\ mainPc' = "quit"
    /\ UNCHANGED <<ctxDone, inShutdown, openFailed, wg, webPc, camVars,
                   camHist, front, outMu, mu, paramVars, reqVars>>

(* --------------------------- web goroutine ----------------------------- *)
\* webServer.ListenAndServe(): starts listening, unless Shutdown was already
\* called or the listener cannot be bound, when it returns at once
WebListen ==
    /\ Alive
    /\ webPc = "start"
    /\ \E bound \in BOOLEAN :
          IF bound /\ ~inShutdown
          THEN webPc' = "listening" /\ wg' = wg
          ELSE webPc' = "closed" /\ wg' = wg - 1
    /\ UNCHANGED <<mainVars, camVars, camHist, front, outMu, mu, paramVars,
                   reqVars>>

\* ListenAndServe returns ErrServerClosed after Shutdown; deferred Done()
WebClose ==
    /\ Alive
    /\ webPc = "listening"
    /\ inShutdown
    /\ webPc' = "closed"
    /\ wg' = wg - 1
    /\ UNCHANGED <<mainVars, camVars, camHist, front, outMu, mu, paramVars,
                   reqVars>>

(* ---------------------- device stream (go-aravis) ---------------------- *)
\* Stream.PushBuffer: hands a buffer to the device; the nil buffer is not
\* queued
PushBuffer(q, b) == IF b = NoBuffer THEN q ELSE Append(q, b)

\* Stream.TimeoutPopBuffer followed by Buffer.GetStatus: the possible
\* results for a device queue q -- nothing within the timeout, or the oldest
\* buffer, filled with some frame (Success) or flagged with a device error
TimeoutPopBuffer(q) ==
    {[buf |-> NoBuffer, status |-> "timeout", pix |-> 0]}
    \cup (IF q = <<>> THEN {}
          ELSE {[buf |-> Head(q), status |-> "success", pix |-> p] : p \in Pixels}
               \cup {[buf |-> Head(q), status |-> "error", pix |-> 0]})

\* the device queue after a pop that returned buffer b
AfterPop(q, b) == IF b = NoBuffer THEN q ELSE Tail(q)

(* --------------------------- cameraThread ------------------------------ *)
\* "continue" / the end of the loop body: the variables declared in the body
\* (buffer, data, img) go out of scope and the next iteration begins
EndIteration ==
    /\ buffer' = NoBuffer
    /\ status' = "none"
    /\ frame' = 0
    /\ data' = 0
    /\ encErr' = FALSE
    /\ camPc' = "check"

\* is.camera.CreateStream(); on error cameraThread returns it (a camera
\* that was never opened has no stream to give)
CamCreateStream ==
    /\ Alive
    /\ camPc = "createStream"
    /\ \E ok \in (IF openFailed THEN {FALSE} ELSE BOOLEAN) :
          IF ok
          THEN streamOpen' = TRUE /\ camErr' = camErr /\ camPc' = "seed"
          ELSE streamOpen' = streamOpen /\ camErr' = TRUE /\ camPc' = "exit"
    /\ UNCHANGED <<encErr, mainVars, wg, webPc, seedI, devBufs, buffer, loopOwns,
                   status, frame, data, acquiring, back, copyIdx, camHist,
                   front, outMu, mu, paramVars, reqVars>>

\* one round of "for i := 0; i < 2; i++": NewBuffer, then PushBuffer
CamSeed ==
    /\ Alive
    /\ camPc = "seed"
    /\ seedI < NumBuffers
    /\ \E ok \in BOOLEAN :
          IF ok
          THEN /\ devBufs' = PushBuffer(devBufs, seedI + 1)
               /\ seedI' = seedI + 1
               /\ UNCHANGED <<camErr, camPc>>
          ELSE /\ camErr' = TRUE
               /\ camPc' = "deferClose"
               /\ UNCHANGED <<devBufs, seedI>>
    /\ UNCHANGED <<encErr, mainVars, wg, webPc, buffer, loopOwns, status, frame, data,
                   streamOpen, acquiring, back, copyIdx, camHist, front,
                   outMu, mu, paramVars, reqVars>>

\* the encoder is built and is.camera.StartAcquisition() is called
CamStartAcquisition ==
    /\ Alive
    /\ camPc = "seed"
    /\ seedI = NumBuffers
    /\ acquiring' = TRUE
    /\ camPc' = "sleep"
    /\ UNCHANGED <<encErr, mainVars, wg, webPc, camErr, seedI, devBufs, buffer,
                   loopOwns, status, frame, data, streamOpen, back, copyIdx,
                   camHist, front, outMu, mu, paramVars, reqVars>>

\* time.Sleep(time.Second)
CamSleep ==
    /\ Alive
    /\ camPc = "sleep"
    /\ camPc' = "check"
    /\ UNCHANGED <<encErr, mainVars, wg, webPc, camErr, seedI, devBufs, buffer,
                   loopOwns, status, frame, data, streamOpen, acquiring, back,
                   copyIdx, camHist, front, outMu, mu, paramVars, reqVars>>

\* select { case <-ctx.Done(): return nil; default: }
CamCheck ==
    /\ Alive
    /\ camPc = "check"
    /\ camPc' = IF ctxDone THEN "deferStop" ELSE "pop"
    /\ UNCHANGED <<encErr, mainVars, wg, webPc, camErr, seedI, devBufs, buffer,
                   loopOwns, status, frame, data, streamOpen, acquiring, back,
                   copyIdx, camHist, front, outMu, mu, paramVars, reqVars>>

\* buffer, err := stream.TimeoutPopBuffer(time.Second)
CamPop ==
    /\ Alive
    /\ camPc = "pop"
    /\ \E r \in TimeoutPopBuffer(devBufs) :
          /\ buffer' = r.buf
          /\ loopOwns' = (r.buf # NoBuffer)
          /\ status' = r.status
          /\ frame' = r.pix
          /\ devBufs' = AfterPop(devBufs, r.buf)
    /\ iterPushes' = 0
    /\ iterated' = TRUE
    /\ camPc' = "status"
    /\ UNCHANGED <<encErr, mainVars, wg, webPc, camErr, seedI, data, streamOpen,
                   acquiring, back, copyIdx, lastCommitted, front, outMu, mu, paramVars, reqVars>>

\* if s, _ := buffer.GetStatus(); s != aravis.BUFFER_STATUS_SUCCESS
CamStatus ==
    /\ Alive
    /\ camPc = "status"
    /\ camPc' = IF status # "success" THEN "pushBad" ELSE "getData"
    /\ UNCHANGED <<encErr, mainVars, wg, webPc, camErr, seedI, devBufs, buffer,
                   loopOwns, status, frame, data, streamOpen, acquiring, back,
                   copyIdx, lastCommitted, iterPushes, iterated, front, outMu,
                   mu, paramVars, reqVars>>

\* (variant) bad status: continue, without handing the buffer back
CamPushBadLeak ==
    /\ Alive
    /\ camPc = "pushBad"
    /\ EndIteration
    /\ UNCHANGED <<mainVars, wg, webPc, camErr, seedI, devBufs, loopOwns,
                   streamOpen, acquiring, back, copyIdx, camHist, front,
                   outMu, mu, paramVars, reqVars>>

\* bad status: stream.PushBuffer(buffer); continue
CamPushBad ==
    /\ Alive
    /\ camPc = "pushBad"
    /\ devBufs' = PushBuffer(devBufs, buffer)
    /\ loopOwns' = FALSE
    /\ iterPushes' = iterPushes + 1
    /\ EndIteration
    /\ UNCHANGED <<mainVars, wg, webPc, camErr, seedI, streamOpen, acquiring,
                   back, copyIdx, lastCommitted, iterated, front, outMu, mu, paramVars, reqVars>>

\* (variant) the buffer is pushed back before its data is read
CamGetDataAfterPush ==
    /\ Alive
    /\ camPc = "getData"
    /\ devBufs' = PushBuffer(devBufs, buffer)
    /\ loopOwns' = FALSE
    /\ data' = frame
    /\ camPc' = "encode"
    /\ UNCHANGED <<encErr, mainVars, wg, webPc, camErr, seedI, buffer,
                   status, frame, streamOpen, acquiring, back,
                   copyIdx, camHist, front, outMu, mu, paramVars, reqVars>>

\* data, err := buffer.GetData(); img := image.NewGray(...); img.Pix = data
CamGetData ==
    /\ Alive
    /\ camPc = "getData"
    /\ data' = frame
    /\ camPc' = "encode"
    /\ UNCHANGED <<encErr, mainVars, wg, webPc, camErr, seedI, devBufs, buffer,
                   loopOwns, status, frame, streamOpen, acquiring, back,
                   copyIdx, camHist, front, outMu, mu, paramVars, reqVars>>

\* err = encoder.Encode(is.out.back, img): appends the PNG to is.out.back,
\* or fails (an image without a valid size is refused before any byte is
\* written)
CamEncode ==
    /\ Alive
    /\ camPc = "encode"
    /\ \E ok \in BOOLEAN :
          IF ok
          THEN /\ back' = back \o Encode(data)
               /\ encErr' = FALSE
               /\ camPc' = "push"
          ELSE /\ back' = back
               /\ encErr' = TRUE
               /\ camPc' = "pushErr"
    /\ UNCHANGED <<mainVars, wg, webPc, camErr, seedI, devBufs, buffer,
                   loopOwns, status, frame, data, streamOpen, acquiring,
                   copyIdx, lastCommitted, iterPushes, iterated, front, outMu,
                   mu, paramVars, reqVars>>

\* (variant) an encode error ends the loop
CamPushErrReturn ==
    /\ Alive
    /\ camPc = "pushErr"
    /\ devBufs' = PushBuffer(devBufs, buffer)
    /\ loopOwns' = FALSE
    /\ iterPushes' = iterPushes + 1
    /\ camPc' = "deferStop"
    /\ UNCHANGED <<encErr, mainVars, wg, webPc, camErr, seedI, buffer,
                   status, frame, data, streamOpen, acquiring, back, copyIdx,
                   lastCommitted, iterated, front, outMu, mu, paramVars,
                   reqVars>>

\* (variant) encode error: the buffer is pushed but the "continue" is
\* missing, so the loop body goes on to the commit
CamPushErrFallThrough ==
    /\ Alive
    /\ camPc = "pushErr"
    /\ devBufs' = PushBuffer(devBufs, buffer)
    /\ loopOwns' = FALSE
    /\ iterPushes' = iterPushes + 1
    /\ camPc' = "lock"
    /\ UNCHANGED <<encErr, mainVars, wg, webPc, camErr, seedI, buffer,
                   status, frame, data, streamOpen, acquiring, back, copyIdx,
                   lastCommitted, iterated, front, outMu, mu, paramVars,
                   reqVars>>

\* encode error: log, stream.PushBuffer(buffer); continue
CamPushErr ==
    /\ Alive
    /\ camPc = "pushErr"
    /\ devBufs' = PushBuffer(devBufs, buffer)
    /\ loopOwns' = FALSE
    /\ iterPushes' = iterPushes + 1
    /\ EndIteration
    /\ UNCHANGED <<mainVars, wg, webPc, camErr, seedI, streamOpen, acquiring,
                   back, copyIdx, lastCommitted, iterated, front, outMu, mu, paramVars, reqVars>>

\* (variant) the buffer is kept through the commit and never pushed before it
CamPushLate ==
    /\ Alive
    /\ camPc = "push"
    /\ camPc' = "lock"
    /\ UNCHANGED <<encErr, mainVars, wg, webPc, camErr, seedI, devBufs, buffer,
                   loopOwns, status, frame, data, streamOpen, acquiring, back,
                   copyIdx, camHist, front, outMu, mu, paramVars, reqVars>>

\* encode succeeded: stream.PushBuffer(buffer)
CamPush ==
    /\ Alive
    /\ camPc = "push"
    /\ devBufs' = PushBuffer(devBufs, buffer)
    /\ loopOwns' = FALSE
    /\ iterPushes' = iterPushes + 1
    /\ camPc' = "lock"
    /\ UNCHANGED <<encErr, mainVars, wg, webPc, camErr, seedI, buffer, status, frame,
                   data, streamOpen, acquiring, back, copyIdx, lastCommitted,
                   iterated, front, outMu,
                   mu, paramVars, reqVars>>

\* (variant) the commit does not take is.out.mu
CamLockNoMutex ==
    /\ Alive
    /\ camPc = "lock"
    /\ camPc' = "make"
    /\ UNCHANGED <<encErr, mainVars, wg, webPc, camErr, seedI, devBufs,
                   buffer, loopOwns, status, frame, data, streamOpen,
                   acquiring, back, copyIdx, camHist, front, outMu, mu,
                   paramVars, reqVars>>

\* is.out.mu.Lock()
CamLock ==
    /\ Alive
    /\ camPc = "lock"
    /\ outMu = NoOwner
    /\ outMu' = CamOwner
    /\ camPc' = "make"
    /\ UNCHANGED <<encErr, mainVars, wg, webPc, camErr, seedI, devBufs, buffer,
                   loopOwns, status, frame, data, streamOpen, acquiring, back,
                   copyIdx, camHist, front, mu, paramVars, reqVars>>

\* is.out.front = make([]byte, is.out.back.Len())
CamMake ==
    /\ Alive
    /\ camPc = "make"
    /\ front' = MakeBytes(Len(back))
    /\ copyIdx' = 0
    /\ camPc' = "copy"
    /\ UNCHANGED <<encErr, mainVars, wg, webPc, camErr, seedI, devBufs, buffer,
                   loopOwns, status, frame, data, streamOpen, acquiring, back,
                   camHist, outMu, mu, paramVars, reqVars>>

\* copy(is.out.front, is.out.back.Bytes()): one byte at a time; the commit
\* is complete when the last byte is in place
CamCopy ==
    /\ Alive
    /\ camPc = "copy"
    /\ IF copyIdx < Min(Len(front), Len(back))
       THEN /\ front' = [front EXCEPT ![copyIdx + 1] = back[copyIdx + 1]]
            /\ copyIdx' = copyIdx + 1
            /\ UNCHANGED <<camPc, lastCommitted>>
       ELSE /\ lastCommitted' = back
            /\ camPc' = "reset"
            /\ UNCHANGED <<front, copyIdx>>
    /\ UNCHANGED <<encErr, mainVars, wg, webPc, camErr, seedI, devBufs, buffer,
                   loopOwns, status, frame, data, streamOpen, acquiring, back,
                   iterPushes, iterated,
                   outMu, mu, paramVars, reqVars>>

\* (variant) the commit leaves the write slot as it is
CamResetKeep ==
    /\ Alive
    /\ camPc = "reset"
    /\ back' = back
    /\ copyIdx' = 0
    /\ camPc' = "unlock"
    /\ UNCHANGED <<encErr, mainVars, wg, webPc, camErr, seedI, devBufs, buffer,
                   loopOwns, status, frame, data, streamOpen, acquiring,
                   camHist, front, outMu, mu, paramVars, reqVars>>

\* is.out.back.Reset()
CamReset ==
    /\ Alive
    /\ camPc = "reset"
    /\ back' = <<>>
    /\ copyIdx' = 0
    /\ camPc' = "unlock"
    /\ UNCHANGED <<encErr, mainVars, wg, webPc, camErr, seedI, devBufs, buffer,
                   loopOwns, status, frame, data, streamOpen, acquiring,
                   camHist, front, outMu, mu, paramVars, reqVars>>

\* is.out.mu.Unlock()
CamUnlock ==
    /\ Alive
    /\ camPc = "unlock"
    /\ outMu' = NoOwner
    /\ EndIteration
    /\ UNCHANGED <<mainVars, wg, webPc, camErr, seedI, devBufs, loopOwns,
                   streamOpen, acquiring, back, copyIdx, camHist, front, mu,
                   paramVars, reqVars>>

\* deferred is.camera.StopAcquisition()
CamStopAcquisition ==
    /\ Alive
    /\ camPc = "deferStop"
    /\ acquiring' = FALSE
    /\ camPc' = "deferClose"
    /\ UNCHANGED <<encErr, mainVars, wg, webPc, camErr, seedI, devBufs, buffer,
                   loopOwns, status, frame, data, streamOpen, back, copyIdx,
                   camHist, front, outMu, mu, paramVars, reqVars>>

\* deferred stream.Close()
CamCloseStream ==
    /\ Alive
    /\ camPc = "deferClose"
    /\ streamOpen' = FALSE
    /\ camPc' = "exit"
    /\ UNCHANGED <<encErr, mainVars, wg, webPc, camErr, seedI, devBufs, buffer,
                   loopOwns, status, frame, data, acquiring, back, copyIdx,
                   camHist, front, outMu, mu, paramVars, reqVars>>

\* cameraThread has returned: deferred activeBackgroundWorkers.Done()
CamDone ==
    /\ Alive
    /\ camPc = "exit"
    /\ wg' = wg - 1
    /\ camPc' = "returned"
    /\ UNCHANGED <<encErr, mainVars, webPc, camErr, seedI, devBufs, buffer, loopOwns,
                   status, frame, data, streamOpen, acquiring, back, copyIdx,
                   camHist, front, outMu, mu, paramVars, reqVars>>

(* ------------------------ servePNG handlers ---------------------------- *)
hVarsRest == <<mainVars, wg, webPc, camVars, camHist, front>>

\* the server accepts a request and starts its handler goroutine
Arrive(h) ==
    /\ Alive
    /\ pc[h] = "idle"
    /\ webPc = "listening"
    /\ ~inShutdown
    /\ pc' = [pc EXCEPT ![h] = "lockMu"]
    /\ UNCHANGED <<hVarsRest, reqHist, outMu, mu, paramVars, gainStr, exposureStr,
                   gainVal, exposureVal, resp, stalled, atLock>>

\* (variant) the handler does not take the global mu
ServeLockMuNoMutex(h) ==
    /\ Alive
    /\ pc[h] = "lockMu"
    /\ mu' = mu
    /\ pc' = [pc EXCEPT ![h] = "select"]
    /\ UNCHANGED <<hVarsRest, reqHist, outMu, paramVars, gainStr, exposureStr, gainVal,
                   exposureVal, resp, stalled, atLock>>

\* mu.Lock(); defer mu.Unlock()
ServeLockMu(h) ==
    /\ Alive
    /\ pc[h] = "lockMu"
    /\ mu = NoOwner
    /\ mu' = ReqOwner(h)
    /\ pc' = [pc EXCEPT ![h] = "select"]
    /\ UNCHANGED <<hVarsRest, reqHist, outMu, paramVars, gainStr, exposureStr, gainVal,
                   exposureVal, resp, stalled, atLock>>

\* (variant) the handler does not look at the request's context
ServeSelectIgnore(h) ==
    /\ Alive
    /\ pc[h] = "select"
    /\ \E done \in BOOLEAN :
          /\ cancelled' = [cancelled EXCEPT ![h] = done]
          /\ pc' = [pc EXCEPT ![h] = "gain"]
    /\ UNCHANGED <<hVarsRest, callFailed, wrote, outMu, mu, paramVars, gainStr, exposureStr,
                   gainVal, exposureVal, resp, stalled, atLock>>

\* (variant) the cancelled path returns with mu still locked
ServeSelectNoUnlock(h) ==
    /\ Alive
    /\ pc[h] = "select"
    /\ \E done \in BOOLEAN :
          /\ cancelled' = cancelled
          /\ pc' = [pc EXCEPT ![h] = IF done THEN "idle" ELSE "gain"]
    /\ UNCHANGED <<hVarsRest, callFailed, wrote, outMu, mu, paramVars, gainStr, exposureStr,
                   gainVal, exposureVal, resp, stalled, atLock>>

\* select { case <-r.Context().Done(): log; return; default: }
ServeSelect(h) ==
    /\ Alive
    /\ pc[h] = "select"
    /\ \E done \in BOOLEAN :
          /\ cancelled' = [cancelled EXCEPT ![h] = done]
          /\ pc' = [pc EXCEPT ![h] = IF done THEN "unlockMu" ELSE "gain"]
    /\ UNCHANGED <<hVarsRest, callFailed, wrote, outMu, mu, paramVars, gainStr, exposureStr,
                   gainVal, exposureVal, resp, stalled, atLock>>

\* gainStr := r.FormValue("gain"); if gainStr != "" { gain, _ := ParseFloat;
\* if gain != is.gain { ...
ServeGain(h) ==
    /\ Alive
    /\ pc[h] = "gain"
    /\ \E s \in GainStrs :
          IF s # "" /\ FloatNeq(ParseFloat(s).val, isGain)
          THEN /\ gainStr' = [gainStr EXCEPT ![h] = s]
               /\ gainVal' = [gainVal EXCEPT ![h] = ParseFloat(s).val]
               /\ pc' = [pc EXCEPT ![h] = "gainLock"]
          ELSE /\ UNCHANGED <<gainStr, gainVal>>
               /\ pc' = [pc EXCEPT ![h] = "exposure"]
    /\ UNCHANGED <<hVarsRest, reqHist, outMu, mu, paramVars, exposureStr, exposureVal,
                   resp, stalled, atLock>>

\* is.mu.Lock()
ServeGainLock(h) ==
    /\ Alive
    /\ pc[h] = "gainLock"
    /\ isMu = NoOwner
    /\ isMu' = ReqOwner(h)
    /\ pc' = [pc EXCEPT ![h] = "gainSet"]
    /\ UNCHANGED <<hVarsRest, reqHist, outMu, mu, isGain, isExposure, devGain,
                   devExposure, gainStr,
                   exposureStr, gainVal, exposureVal, resp, stalled, atLock>>

\* is.gain = gain
ServeGainSet(h) ==
    /\ Alive
    /\ pc[h] = "gainSet"
    /\ isGain' = gainVal[h]
    /\ pc' = [pc EXCEPT ![h] = "gainCall"]
    /\ UNCHANGED <<hVarsRest, reqHist, outMu, mu, isMu, isExposure, devGain,
                   devExposure, gainStr,
                   exposureStr, gainVal, exposureVal, resp, stalled, atLock>>

\* (variant) a failed SetGain aborts the request
ServeGainCallAbort(h) ==
    /\ Alive
    /\ pc[h] = "gainCall"
    /\ devGain' = gainVal[h]
    /\ \E ok \in BOOLEAN :
          /\ callFailed' = [callFailed EXCEPT ![h] = ~ok]
          /\ isMu' = IF ok THEN isMu ELSE NoOwner
          /\ pc' = [pc EXCEPT ![h] = IF ok THEN "gainUnlock" ELSE "unlockMu"]
    /\ UNCHANGED <<hVarsRest, cancelled, wrote, outMu, mu, isGain, isExposure, devExposure,
                   gainStr,
                   exposureStr, gainVal, exposureVal, resp, stalled, atLock>>

\* is.camera.SetGain(gain); log.  Whether the device accepted the value is
\* not looked at.
ServeGainCall(h) ==
    /\ Alive
    /\ pc[h] = "gainCall"
    /\ devGain' = gainVal[h]
    /\ \E ok \in BOOLEAN :
          callFailed' = [callFailed EXCEPT ![h] = ~ok]
    /\ pc' = [pc EXCEPT ![h] = "gainUnlock"]
    /\ UNCHANGED <<hVarsRest, cancelled, wrote, outMu, mu, isMu, isGain, isExposure, devExposure,
                   gainStr,
                   exposureStr, gainVal, exposureVal, resp, stalled, atLock>>

\* is.mu.Unlock(); gainStr and gain are not used past this point
ServeGainUnlock(h) ==
    /\ Alive
    /\ pc[h] = "gainUnlock"
    /\ isMu' = NoOwner
    /\ callFailed' = [callFailed EXCEPT ![h] = FALSE]
    /\ gainStr' = [gainStr EXCEPT ![h] = ""]
    /\ gainVal' = [gainVal EXCEPT ![h] = 0]
    /\ pc' = [pc EXCEPT ![h] = "exposure"]
    /\ UNCHANGED <<hVarsRest, cancelled, wrote, outMu, mu, isGain, isExposure, devGain,
                   devExposure, exposureStr, exposureVal, resp, stalled,
                   atLock>>

\* exposureStr := r.FormValue("exposure"); if exposureStr != "" { exposure,
\* _ := ParseFloat; if exposure != is.exposure { ...
ServeExposure(h) ==
    /\ Alive
    /\ pc[h] = "exposure"
    /\ \E s \in ExposureStrs :
          IF s # "" /\ FloatNeq(ParseFloat(s).val, isExposure)
          THEN /\ exposureStr' = [exposureStr EXCEPT ![h] = s]
               /\ exposureVal' = [exposureVal EXCEPT ![h] = ParseFloat(s).val]
               /\ pc' = [pc EXCEPT ![h] = "exposureLock"]
          ELSE /\ UNCHANGED <<exposureStr, exposureVal>>
               /\ pc' = [pc EXCEPT ![h] = "lockOut"]
    /\ UNCHANGED <<hVarsRest, reqHist, outMu, mu, paramVars, gainStr, gainVal, resp,
                   stalled, atLock>>

\* is.mu.Lock()
ServeExposureLock(h) ==
    /\ Alive
    /\ pc[h] = "exposureLock"
    /\ isMu = NoOwner
    /\ isMu' = ReqOwner(h)
    /\ pc' = [pc EXCEPT ![h] = "exposureCall"]
    /\ UNCHANGED <<hVarsRest, reqHist, outMu, mu, isGain, isExposure, devGain,
                   devExposure, gainStr,
                   exposureStr, gainVal, exposureVal, resp, stalled, atLock>>

\* is.camera.SetExposureTime(exposure).  Whether the device accepted the
\* value is not looked at.
ServeExposureCall(h) ==
    /\ Alive
    /\ pc[h] = "exposureCall"
    /\ devExposure' = exposureVal[h]
    /\ \E ok \in BOOLEAN :
          callFailed' = [callFailed EXCEPT ![h] = ~ok]
    /\ pc' = [pc EXCEPT ![h] = "exposureSet"]
    /\ UNCHANGED <<hVarsRest, cancelled, wrote, outMu, mu, isMu, isGain, isExposure, devGain, gainStr,
                   exposureStr, gainVal, exposureVal, resp, stalled, atLock>>

\* is.exposure = exposure; log
ServeExposureSet(h) ==
    /\ Alive
    /\ pc[h] = "exposureSet"
    /\ isExposure' = exposureVal[h]
    /\ pc' = [pc EXCEPT ![h] = "exposureUnlock"]
    /\ UNCHANGED <<hVarsRest, reqHist, outMu, mu, isMu, isGain, devGain, devExposure,
                   gainStr,
                   exposureStr, gainVal, exposureVal, resp, stalled, atLock>>

\* is.mu.Unlock(); exposureStr and exposure are not used past this point
ServeExposureUnlock(h) ==
    /\ Alive
    /\ pc[h] = "exposureUnlock"
    /\ isMu' = NoOwner
    /\ callFailed' = [callFailed EXCEPT ![h] = FALSE]
    /\ exposureStr' = [exposureStr EXCEPT ![h] = ""]
    /\ exposureVal' = [exposureVal EXCEPT ![h] = 0]
    /\ pc' = [pc EXCEPT ![h] = "lockOut"]
    /\ UNCHANGED <<hVarsRest, cancelled, wrote, outMu, mu, isGain, isExposure, devGain,
                   devExposure, gainStr, gainVal, resp, stalled, atLock>>

\* is.out.mu.Lock(); defer is.out.mu.Unlock()
ServeLockOut(h) ==
    /\ Alive
    /\ pc[h] = "lockOut"
    /\ outMu = NoOwner
    /\ outMu' = ReqOwner(h)
    /\ atLock' = [atLock EXCEPT ![h] = lastCommitted]
    /\ pc' = [pc EXCEPT ![h] = "write"]
    /\ UNCHANGED <<hVarsRest, reqHist, mu, paramVars, gainStr, exposureStr, gainVal,
                   exposureVal, resp, stalled>>

\* (variant) the handler sends the write slot instead of the published one
ServeWriteBack(h) ==
    /\ Alive
    /\ pc[h] = "write"
    /\ resp' = [resp EXCEPT ![h] = back]
    /\ wrote' = [wrote EXCEPT ![h] = TRUE]
    /\ \E st \in BOOLEAN : stalled' = [stalled EXCEPT ![h] = st]
    /\ pc' = [pc EXCEPT ![h] = "writing"]
    /\ UNCHANGED <<hVarsRest, cancelled, callFailed, outMu, mu, paramVars, gainStr, exposureStr,
                   gainVal, exposureVal, atLock>>

\* w.Write(is.out.front) is entered: the bytes of is.out.front are handed to
\* the connection, whose client may or may not ever drain them
ServeWrite(h) ==
    /\ Alive
    /\ pc[h] = "write"
    /\ resp' = [resp EXCEPT ![h] = front]
    /\ wrote' = [wrote EXCEPT ![h] = TRUE]
    /\ \E st \in BOOLEAN : stalled' = [stalled EXCEPT ![h] = st]
    /\ pc' = [pc EXCEPT ![h] = "writing"]
    /\ UNCHANGED <<hVarsRest, cancelled, callFailed, outMu, mu, paramVars, gainStr, exposureStr,
                   gainVal, exposureVal, atLock>>

\* w.Write returns (an error is only logged)
ServeWriteReturn(h) ==
    /\ Alive
    /\ pc[h] = "writing"
    /\ ~stalled[h]
    /\ pc' = [pc EXCEPT ![h] = "unlockOut"]
    /\ UNCHANGED <<hVarsRest, reqHist, outMu, mu, paramVars, gainStr, exposureStr,
                   gainVal, exposureVal, resp, stalled, atLock>>

\* deferred is.out.mu.Unlock()
ServeUnlockOut(h) ==
    /\ Alive
    /\ pc[h] = "unlockOut"
    /\ outMu' = NoOwner
    /\ pc' = [pc EXCEPT ![h] = "unlockMu"]
    /\ UNCHANGED <<hVarsRest, reqHist, mu, paramVars, gainStr, exposureStr, gainVal,
                   exposureVal, resp, stalled, atLock>>

\* deferred mu.Unlock(); the handler returns, its request is dropped and
\* the connection is ready for the next one
ServeUnlockMu(h) ==
    /\ Alive
    /\ pc[h] = "unlockMu"
    /\ mu' = NoOwner
    /\ pc' = [pc EXCEPT ![h] = "idle"]
    /\ resp' = [resp EXCEPT ![h] = <<>>]
    /\ atLock' = [atLock EXCEPT ![h] = <<>>]
    /\ cancelled' = [cancelled EXCEPT ![h] = FALSE]
    /\ wrote' = [wrote EXCEPT ![h] = FALSE]
    /\ UNCHANGED callFailed
    /\ UNCHANGED <<hVarsRest, outMu, paramVars, gainStr, exposureStr,
                   gainVal, exposureVal, stalled>>

(* --------------------------- specification ----------------------------- *)
Main ==
    \/ MainEnumerate \/ MainOpen \/ MainSpawn \/ MainSignal
    \/ MainShutdown \/ MainShutdownReturn \/ MainWait

Web == WebListen \/ WebClose

Cam ==
    \/ CamCreateStream \/ CamSeed \/ CamStartAcquisition \/ CamSleep
    \/ CamCheck \/ CamPop \/ CamStatus \/ CamPushBad \/ CamGetData
    \/ CamEncode \/ CamPushErr \/ CamPush \/ CamLock \/ CamMake \/ CamCopy
    \/ CamReset \/ CamUnlock \/ CamStopAcquisition \/ CamCloseStream
    \/ CamDone

Serve(h) ==
    \/ ServeLockMu(h) \/ ServeSelect(h) \/ ServeGain(h) \/ ServeGainLock(h)
    \/ ServeGainSet(h) \/ ServeGainCall(h) \/ ServeGainUnlock(h)
    \/ ServeExposure(h) \/ ServeExposureLock(h) \/ ServeExposureCall(h)
    \/ ServeExposureSet(h) \/ ServeExposureUnlock(h) \/ ServeLockOut(h)
    \/ ServeWrite(h) \/ ServeWriteReturn(h) \/ ServeUnlockOut(h)
    \/ ServeUnlockMu(h)

Next ==
    \/ Main
    \/ Web
    \/ Cam
    \/ \E h \in Reqs : Arrive(h)
    \/ \E h \in Reqs : Serve(h)

Spec == Init /\ [][Next]_vars

\* The goroutine scheduler runs every goroutine that can take a step, the
\* acquire timeout and the shutdown grace period elapse, and a client that
\* is not stalled drains its response.  Nothing obliges a signal or a new
\* request to arrive.
MainProgress ==
    \/ MainEnumerate \/ MainOpen \/ MainSpawn \/ MainShutdown
    \/ MainShutdownReturn \/ MainWait

LiveSpec ==
    /\ Spec
    /\ WF_vars(MainProgress)
    /\ WF_vars(Web)
    /\ WF_vars(Cam)
    /\ \A h \in Reqs : WF_vars(Serve(h))

(* ------------------------------ properties ----------------------------- *)
\* a payload a reader may legitimately see: nothing yet, or one whole PNG
IsPayload(b) == b = <<>> \/ \E p \in Pixels : b = Encode(p)

\* positions of cameraThread inside the acquisition loop
LoopPcs == {"check", "pop", "status", "pushBad", "getData", "encode",
            "pushErr", "push", "lock", "make", "copy", "reset", "unlock"}

\* positions of a handler between w.Write and the release of the locks
WritePcs == {"writing", "unlockOut", "unlockMu"}

GainApplyPcs == {"gainLock", "gainSet", "gainCall", "gainUnlock"}
ExposureApplyPcs == {"exposureLock", "exposureCall", "exposureSet",
                     "exposureUnlock"}

\* C1: every read of is.out.front returns one whole committed payload, the
\* one that was the latest commit when the reader took is.out.mu, never a
\* mixture of two payloads.
C1_NoTornRead ==
    \A h \in Reqs :
        pc[h] \in WritePcs => resp[h] = atLock[h] /\ IsPayload(resp[h])

\* C1 witness: a reader has sent a non-empty payload while the loop is
\* waiting to commit a different one.
C1_Witness ==
    \E h \in Reqs :
        /\ pc[h] = "writing"
        /\ resp[h] # <<>>
        /\ camPc = "lock"
        /\ back # resp[h]

\* C2: in every iteration the popped buffer is pushed back exactly once
\* before the next pop, whatever the acquire and encode outcomes, so device
\* plus loop always hold the NumBuffers seeded buffers, each once.
C2_RecycleUnconditional ==
    camPc \in LoopPcs =>
        /\ Len(devBufs) + (IF loopOwns THEN 1 ELSE 0) = NumBuffers
        /\ \A i, j \in 1..Len(devBufs) : devBufs[i] = devBufs[j] => i = j
        /\ loopOwns => \A i \in 1..Len(devBufs) : devBufs[i] # buffer
        /\ camPc \in {"check", "pop"} /\ iterated =>
              iterPushes = 1 /\ ~loopOwns
        /\ camPc \in {"status", "pushBad", "getData", "encode", "pushErr",
                      "push"} => iterPushes = 0

\* C2 witness: iterations have ended without any commit (every one of them
\* failed) and all the buffers are back with the device.
C2_Witness ==
    /\ camPc = "check"
    /\ iterated
    /\ iterPushes = 1
    /\ Len(devBufs) = NumBuffers
    /\ lastCommitted = <<>>
    /\ back = <<>>

\* C3 (as claimed): the loop never waits for is.out.mu while a handler holds
\* it during the write of its response.
C3_Orig ==
    ~(/\ camPc = "lock"
      /\ \E h \in Reqs : outMu = ReqOwner(h) /\ pc[h] = "writing")

\* C4 (as claimed): once the token is cancelled cameraThread returns.
C4_Orig == ctxDone ~> (camPc = "returned")

\* C5 (as claimed): once a termination signal has been received main
\* reaches its exit.
C5_Orig == (mainPc \in {"shutdown", "shutdownWait", "wait"}) ~> (mainPc = "quit")

\* C6: main cancels the token, then asks the server to shut down, then
\* waits; it exits only when cameraThread and ListenAndServe have both
\* returned and reported Done.
C6_ShutdownOrder ==
    /\ inShutdown => ctxDone
    /\ mainPc \in {"shutdownWait", "wait", "quit"} => inShutdown
    /\ mainPc = "shutdown" => ctxDone /\ ~inShutdown
    /\ mainPc = "quit" => wg = 0 /\ camPc = "returned" /\ webPc = "closed"

\* C6 witness: main has exited after a run in which the loop iterated.
C6_Witness == mainPc = "quit" /\ iterated /\ front # <<>>

\* C7 (as claimed): no SetGain(v) / SetExposureTime(v) call is issued for a
\* value v that is the one the device was last set to.
C7_Orig ==
    \A h \in Reqs :
        /\ pc[h] = "gainCall" => gainVal[h] # devGain
        /\ pc[h] = "exposureCall" => exposureVal[h] # devExposure

\* C8 (as claimed): when the camera cannot be opened or cameraThread fails
\* to start, the server is not listening.
C8_Orig == (openFailed \/ camErr) => webPc # "listening"

\* C9 (as claimed): a request whose gain or exposure text does not parse
\* never gets to change is.gain / is.exposure or to call the device.
C9_Orig ==
    \A h \in Reqs :
        /\ pc[h] \in GainApplyPcs => ~ParseFloat(gainStr[h]).err
        /\ pc[h] \in ExposureApplyPcs => ~ParseFloat(exposureStr[h]).err

\* C10: is.out.front changes only in the commit of an iteration whose
\* acquire and encode both succeeded; a failing iteration (timeout, bad
\* status, encode error) leaves it as it is and goes back to the loop head.
C10_FailureKeepsPayload ==
    [][/\ front' # front =>
            camPc \in {"make", "copy"} /\ status = "success" /\ ~encErr
       /\ lastCommitted' # lastCommitted =>
            camPc = "copy" /\ status = "success" /\ ~encErr
       /\ camPc \in {"pushBad", "pushErr"} /\ camPc' # camPc =>
            camPc' = "check"]_vars

\* C10 witness: an iteration failed in the encoder while an earlier payload
\* is published.
C10_Witness == camPc = "pushErr" /\ encErr /\ front # <<>> /\ front = lastCommitted

\* C11: a read of the published frame made before any commit returns the
\* empty payload (zero bytes) and the handler goes on normally: until the
\* first commit has completed the published slice is empty, and a handler
\* that took is.out.mu before any commit has written exactly zero bytes and
\* is on its normal path out.
C11_EmptyBeforeCommit ==
    /\ lastCommitted = <<>> /\ outMu # CamOwner => front = <<>>
    /\ \A h \in Reqs :
          pc[h] \in WritePcs /\ ~cancelled[h] /\ atLock[h] = <<>> =>
              resp[h] = <<>> /\ wrote[h]

\* a handler has written the empty payload while the loop already holds an
\* encoded frame that it has not committed yet
C11_Witness ==
    \E h \in Reqs :
        /\ pc[h] = "unlockOut" /\ wrote[h] /\ resp[h] = <<>>
        /\ lastCommitted = <<>> /\ back # <<>> /\ camPc = "lock"

\* C12: a request whose context is already cancelled when processing begins
\* has no side effect: it only unlocks mu; it holds neither is.mu nor
\* is.out.mu, has read no frame and written no body, and while it is in
\* flight neither the recorded nor the device gain and exposure change.
C12_CancelledNoEffect ==
    /\ [](\A h \in Reqs :
            cancelled[h] =>
                /\ pc[h] = "unlockMu" /\ mu = ReqOwner(h)
                /\ isMu # ReqOwner(h) /\ outMu # ReqOwner(h)
                /\ ~wrote[h] /\ resp[h] = <<>>)
    /\ [][\A h \in Reqs :
            cancelled[h] \/ cancelled'[h] =>
                /\ paramVars' = paramVars
                /\ resp'[h] = <<>> /\ ~wrote'[h]
                /\ pc'[h] \in {"unlockMu", "idle"}]_vars

\* a cancelled request about to return while the recorded parameters were
\* changed by an earlier request and a frame is published
C12_Witness ==
    \E h \in Reqs :
        /\ cancelled[h] /\ pc[h] = "unlockMu"
        /\ isGain # DefaultGain /\ front # <<>>

\* C13 (as stated): no request waits for mu while the holder of mu is past
\* its parameter updates and is writing its response body.
C13_Orig ==
    \A h, g \in Reqs :
        ~(pc[h] = "lockMu" /\ mu = ReqOwner(g) /\ pc[g] = "writing")

ParamPcs == {"gain", "exposure"} \cup GainApplyPcs \cup ExposureApplyPcs

\* C14: parameter changes are serialized: a handler between its gain
\* comparison and the end of its exposure update holds mu, so at most one
\* handler is there at a time, and is.mu is held exactly by a handler inside
\* one of the two device-call sections.
C14_ParamsSerialized ==
    /\ \A h \in Reqs : pc[h] \in ParamPcs => mu = ReqOwner(h)
    /\ \A h, g \in Reqs : pc[h] \in ParamPcs /\ pc[g] \in ParamPcs => h = g
    /\ \A h \in Reqs :
          isMu = ReqOwner(h) <=>
              pc[h] \in {"gainSet", "gainCall", "gainUnlock", "exposureCall",
                         "exposureSet", "exposureUnlock"}

\* one request is at its SetGain call while another one waits for mu
C14_Witness ==
    \E h, g \in Reqs :
        h # g /\ pc[h] = "gainCall" /\ pc[g] = "lockMu" /\ mu = ReqOwner(h)

\* C15: a device error in SetGain or SetExposureTime does not fail the
\* response: after a failed call the handler is on the same path as after a
\* successful one, still holding is.mu and mu, and every handler that was
\* not cancelled reaches its end having written the payload that was
\* published when it took is.out.mu.
C15_DeviceErrorServes ==
    \A h \in Reqs :
        /\ callFailed[h] =>
              /\ pc[h] \in {"gainUnlock", "exposureSet", "exposureUnlock"}
              /\ isMu = ReqOwner(h) /\ mu = ReqOwner(h)
        /\ pc[h] = "unlockMu" /\ ~cancelled[h] =>
              wrote[h] /\ resp[h] = atLock[h]

\* SetExposureTime has just failed while a frame is published
C15_Witness ==
    \E h \in Reqs :
        callFailed[h] /\ pc[h] = "exposureSet" /\ lastCommitted # <<>>

\* C16: the published payload is always empty or the complete encoding of
\* exactly one successfully encoded frame: outside a commit the published
\* slice is the last committed payload, every iteration starts with an empty
\* write slot (a failed encode leaves nothing in it), and what the loop is
\* about to commit is the encoding of this iteration's frame alone.
C16_PublishedWhole ==
    /\ IsPayload(lastCommitted)
    /\ outMu # CamOwner => front = lastCommitted
    /\ camPc \in {"check", "pop", "status", "pushBad", "getData", "encode",
                  "pushErr", "unlock"} => back = <<>>
    /\ camPc \in {"push", "lock", "make", "copy", "reset"} =>
          /\ back = Encode(data)
          /\ status = "success" /\ ~encErr
    /\ camPc \in {"reset", "unlock"} => front = Encode(data)

\* an encode has just failed with a frame already published: the write slot
\* holds no bytes and the published payload is still one whole frame
C16_Witness ==
    /\ camPc = "pushErr" /\ encErr /\ back = <<>>
    /\ front # <<>> /\ IsPayload(front) /\ outMu = NoOwner

\* C17: the loop leaves Running only by observing the cancelled context at
\* the top of an iteration (no timeout, bad status or encode error ends it),
\* and once cameraThread has returned the acquisition is stopped and the
\* stream is closed.
C17_LoopExit ==
    /\ [](camPc = "returned" => ~acquiring /\ ~streamOpen)
    /\ [][(camPc \in LoopPcs /\ camPc' \notin LoopPcs) =>
            camPc = "check" /\ ctxDone /\ camPc' = "deferStop"]_vars
    /\ [][(camPc \in {"status", "pushBad", "pushErr"} /\ camPc' # camPc) =>
            camPc' \in LoopPcs]_vars

\* cameraThread has returned after having run iterations, one of them with
\* a published frame
C17_Witness ==
    /\ camPc = "returned" /\ iterated /\ ~camErr /\ ctxDone
    /\ front # <<>> /\ ~acquiring /\ ~streamOpen

\* C18 (as stated): the buffer is recycled only after the commit of the
\* iteration's payload, i.e. the loop still holds the buffer while it
\* commits.
C18_Orig ==
    camPc \in {"lock", "make", "copy", "reset", "unlock"} => loopOwns

\* C18 (amended): in a successful iteration the order is acquire, encode,
\* recycle, publish: the buffer is held while its data is read and encoded,
\* and it has been pushed back to the stream, once, before the commit begins.
C18_RecycleBeforePublish ==
    /\ camPc \in {"getData", "encode", "push"} =>
          loopOwns /\ iterPushes = 0 /\ status = "success"
    /\ camPc \in {"lock", "make", "copy", "reset", "unlock"} =>
          ~loopOwns /\ iterPushes = 1 /\ status = "success"

\* the loop is committing while the buffer of this iteration is already
\* back in the stream
C18_Witness ==
    /\ camPc = "copy" /\ ~loopOwns /\ iterPushes = 1
    /\ outMu = CamOwner /\ back = Encode(data) /\ front # back

\* C19: a buffer is owned by the stream or by the loop, never both: the
\* buffer the loop holds is not in the stream's queue, no buffer is in the
\* queue twice, and the loop reads and encodes pixel data only of a buffer
\* it holds, between the pop and the push.
C19_ExclusiveOwnership ==
    /\ \A i, j \in 1..Len(devBufs) : devBufs[i] = devBufs[j] => i = j
    /\ loopOwns =>
          /\ buffer # NoBuffer
          /\ \A i \in 1..Len(devBufs) : devBufs[i] # buffer
          /\ camPc \in {"status", "pushBad", "getData", "encode", "pushErr",
                        "push"}
    /\ camPc \in {"getData", "encode"} => loopOwns /\ status = "success"
    /\ camPc \in LoopPcs /\ ~loopOwns /\ buffer # NoBuffer =>
          \E i \in 1..Len(devBufs) : devBufs[i] = buffer

\* the loop encodes the data of a buffer it holds while the other buffer is
\* with the stream
C19_Witness ==
    /\ camPc = "encode" /\ loopOwns /\ buffer # NoBuffer
    /\ Len(devBufs) = NumBuffers - 1 /\ devBufs[1] # buffer

HoldsLock(h) == mu = ReqOwner(h) \/ isMu = ReqOwner(h) \/ outMu = ReqOwner(h)

ReqWaits(h) ==
    \/ pc[h] = "lockMu" /\ mu # NoOwner
    \/ pc[h] \in {"gainLock", "exposureLock"} /\ isMu # NoOwner
    \/ pc[h] = "lockOut" /\ outMu # NoOwner

CamWaits == camPc = "lock" /\ outMu # NoOwner

\* C20: mu, is.mu and is.out.mu never deadlock: whenever a goroutine waits
\* for a lock, the holder of that lock is a goroutine that is not waiting
\* for a lock, or transitively leads to one; locks are taken in the order
\* mu, is.mu / is.out.mu; and a handler that has returned, on the cancelled
\* path too, holds no lock.
C20_NoLockDeadlock ==
    /\ \A h \in Reqs :
          /\ pc[h] = "idle" => ~HoldsLock(h)
          /\ mu = ReqOwner(h) <=> pc[h] \notin {"idle", "lockMu"}
          /\ outMu = ReqOwner(h) <=> pc[h] \in {"write", "writing", "unlockOut"}
          /\ isMu = ReqOwner(h) => mu = ReqOwner(h) /\ outMu # ReqOwner(h)
          /\ outMu = ReqOwner(h) => mu = ReqOwner(h) /\ isMu # ReqOwner(h)
    /\ outMu = CamOwner <=> camPc \in {"make", "copy", "reset", "unlock"}
    /\ (CamWaits \/ \E h \in Reqs : ReqWaits(h)) =>
          \/ camPc \in LoopPcs /\ ~CamWaits
          \/ \E h \in Reqs : pc[h] # "idle" /\ ~ReqWaits(h)

\* one handler waits for mu, its holder waits for is.out.mu, and the loop,
\* which holds is.out.mu, is running its commit
C20_Witness ==
    \E h, g \in Reqs :
        /\ pc[h] = "lockMu" /\ mu = ReqOwner(g)
        /\ pc[g] = "lockOut" /\ outMu = CamOwner /\ camPc = "copy"

====
